---- MODULE Spec2Model ----
(***************************************************************************)
(* The term codec and the snippet engine of lux's Python bridge.           *)
(*                                                                         *)
(* Two variants of eval.py live in the repository:                         *)
(*   "priv" : src/priv/python/lux/eval.py      (allowlist, in-band errors) *)
(*   "lux"  : src/lux/priv/python/lux/eval.py  (no allowlist, re-raises)   *)
(* Definitions without prefix model the first, lux_... the second.         *)
(*                                                                         *)
(* Text is a sequence of characters (one-character strings; "U+E9" and     *)
(* "U+C9" stand for the code points e-acute and E-acute), a byte string is *)
(* a sequence of bytes (an ASCII character stands for its own byte, "xC3", *)
(* "xA9", "x89" for the bytes 0xC3, 0xA9, 0x89).                           *)
(***************************************************************************)
EXTENDS Integers, Sequences, FiniteSets, TLC

VARIABLES
    impl,       \* which eval.py is loaded: "priv" or "lux"
    allowlist,  \* the set SAFE_ATOMS of the process, as the names added to and
                \* removed from its literal since import
    input,      \* the value handed to the codec by the caller
    depth,      \* nesting depth of input
    ops,        \* the codec calls made so far on input, in order
    out,        \* outcome of the last codec call (Return or Raise)
    cls,        \* a '__class__' string being typed by the caller
    code,       \* the parsed snippet of the current execute call
    bindings,   \* its variables argument (a Term mapping)
    pc,         \* position of the execute call
    globals_dict, \* its environment
    trace,      \* indices of the statements run so far, in order
    caught,     \* the exception its except clause caught, if any
    result,     \* its outcome (Return or Raise)
    builtins,   \* names added to the interpreter's builtins dict, shared by
                \* every environment of the process
    parked      \* a second execute call of the same process, not running now

codecVars == <<input, depth, ops, out, cls>>
execVars == <<code, bindings, pc, globals_dict, trace, caught, result, builtins, parked>>
vars == <<impl, allowlist, codecVars, execVars>>

(***************************************************************************)
(* Bounds of the model.                                                    *)
(***************************************************************************)
MaxDepth == 2
MaxClassLen == 3
MaxStmts == 3
MaxIsoStmts == 2
MaxArgs == 2
MaxNameLen == 2
MaxCalls == 3

(***************************************************************************)
(* Text constants of the sources.                                          *)
(***************************************************************************)
T_class == <<"_","_","c","l","a","s","s","_","_">>
T_struct == <<"_","_","s","t","r","u","c","t","_","_">>
T_nil == <<"n","i","l">>
T_error == <<"e","r","r","o","r">>
T_Elixir == <<"E","l","i","x","i","r",".">>
T_colon == <<":"," ">>
T_UnsafeAtomError == <<"U","n","s","a","f","e","A","t","o","m","E","r","r","o","r">>
T_unsafe_msg == <<"A","t","t","e","m","p","t","e","d"," ","t","o"," ","c","r","e","a","t","e"," ","u","n","s","a","f","e"," ","a","t","o","m",":"," ">>
T_AttributeError == <<"A","t","t","r","i","b","u","t","e","E","r","r","o","r">>
T_TypeError == <<"T","y","p","e","E","r","r","o","r">>
T_IndexError == <<"I","n","d","e","x","E","r","r","o","r">>
T_UnicodeDecodeError == <<"U","n","i","c","o","d","e","D","e","c","o","d","e","E","r","r","o","r">>
T_NameError == <<"N","a","m","e","E","r","r","o","r">>
T_ZeroDivisionError == <<"Z","e","r","o","D","i","v","i","s","i","o","n","E","r","r","o","r">>
T_SyntaxError == <<"S","y","n","t","a","x","E","r","r","o","r">>
T_RuntimeError == <<"R","u","n","t","i","m","e","E","r","r","o","r">>
T_index_msg == <<"s","t","r","i","n","g"," ","i","n","d","e","x"," ","o","u","t"," ","o","f"," ","r","a","n","g","e">>
T_div_msg == <<"d","i","v","i","s","i","o","n"," ","b","y"," ","z","e","r","o">>
T_syntax_msg == <<"i","n","v","a","l","i","d"," ","s","y","n","t","a","x">>
T_decode_msg == <<"'","u","t","f","-","8","'"," ","c","o","d","e","c"," ","c","a","n","'","t"," ","d","e","c","o","d","e"," ","b","y","t","e","s">>
T_no_attr == <<"'"," ","o","b","j","e","c","t"," ","h","a","s"," ","n","o"," ","a","t","t","r","i","b","u","t","e"," ","'">>
T_quote == <<"'">>
T_split == <<"s","p","l","i","t">>
T_encode == <<"e","n","c","o","d","e">>
T_name_pre == <<"n","a","m","e"," ","'">>
T_name_post == <<"'"," ","i","s"," ","n","o","t"," ","d","e","f","i","n","e","d">>
T_unhashable == <<"u","n","h","a","s","h","a","b","l","e"," ","t","y","p","e",":"," ","'">>
T_bytes_like == <<"a"," ","b","y","t","e","s","-","l","i","k","e"," ","o","b","j","e","c","t"," ","i","s"," ","r","e","q","u","i","r","e","d",","," ","n","o","t"," ","'","s","t","r","'">>
T_name == <<"n","a","m","e">>
T_role == <<"r","o","l","e">>
T_last_login == <<"l","a","s","t","_","l","o","g","i","n">>
T_user == <<"u","s","e","r">>
T_None == <<"N","o","n","e">>
T_builtins == <<"_","_","b","u","i","l","t","i","n","s","_","_">>
T_lux_function == <<"_","_","l","u","x","_","f","u","n","c","t","i","o","n","_","_">>
T_lux_function_args == <<"_","_","l","u","x","_","f","u","n","c","t","i","o","n","_","a","r","g","s","_","_">>
T_lux_constructor_args == <<"_","_","l","u","x","_","c","o","n","s","t","r","u","c","t","o","r","_","a","r","g","s","_","_">>
T_handler == <<"h","a","n","d","l","e","r">>
T_new == <<"n","e","w">>
T_items == <<"i","t","e","m","s">>
T_x == <<"x">>
T_f == <<"f">>
T_K == <<"K">>
T_operand_pre == <<"u","n","s","u","p","p","o","r","t","e","d"," ","o","p","e","r","a","n","d"," ","t","y","p","e","(","s",")"," ","f","o","r"," ","+",":"," ","'">>
T_operand_post == <<"'"," ","a","n","d"," ","'","i","n","t","'">>
T_concat_str == <<"c","a","n"," ","o","n","l","y"," ","c","o","n","c","a","t","e","n","a","t","e"," ","s","t","r"," ","(","n","o","t"," ","\"","i","n","t","\"",")"," ","t","o"," ","s","t","r">>
T_concat_bytes == <<"c","a","n","'","t"," ","c","o","n","c","a","t"," ","i","n","t"," ","t","o"," ","b","y","t","e","s">>
T_concat_list == <<"c","a","n"," ","o","n","l","y"," ","c","o","n","c","a","t","e","n","a","t","e"," ","l","i","s","t"," ","(","n","o","t"," ","\"","i","n","t","\"",")"," ","t","o"," ","l","i","s","t">>
T_concat_tuple == <<"c","a","n"," ","o","n","l","y"," ","c","o","n","c","a","t","e","n","a","t","e"," ","t","u","p","l","e"," ","(","n","o","t"," ","\"","i","n","t","\"",")"," ","t","o"," ","t","u","p","l","e">>
T_not_callable == <<"'"," ","o","b","j","e","c","t"," ","i","s"," ","n","o","t"," ","c","a","l","l","a","b","l","e">>
T_attr_name == <<"a","t","t","r","i","b","u","t","e"," ","n","a","m","e"," ","m","u","s","t"," ","b","e"," ","s","t","r","i","n","g",","," ","n","o","t"," ","'">>
T_not_iterable == <<"'"," ","o","b","j","e","c","t"," ","i","s"," ","n","o","t"," ","i","t","e","r","a","b","l","e">>
T_star_arg == <<"(",")"," ","a","r","g","u","m","e","n","t"," ","a","f","t","e","r"," ","*"," ","m","u","s","t"," ","b","e"," ","a","n"," ","i","t","e","r","a","b","l","e",","," ","n","o","t"," ">>
T_return_msg == <<"'","r","e","t","u","r","n","'"," ","o","u","t","s","i","d","e"," ","f","u","n","c","t","i","o","n">>
T_type_object == <<"t","y","p","e"," ","o","b","j","e","c","t"," ","'">>
T_dot == <<".">>
T_has_no_attr == <<"'"," ","h","a","s"," ","n","o"," ","a","t","t","r","i","b","u","t","e"," ","'">>

SAFE_ATOMS ==
    { <<"_","_","s","t","r","u","c","t","_","_">>,
      <<"n","a","m","e">>,
      <<"i","d">>,
      <<"t","y","p","e">>,
      <<"v","a","l","u","e">>,
      <<"d","a","t","a">>,
      <<"m","e","t","a","d","a","t","a">>,
      <<"s","t","a","t","u","s">>,
      <<"c","r","e","a","t","e","d","_","a","t">>,
      <<"u","p","d","a","t","e","d","_","a","t">>,
      <<"d","e","l","e","t","e","d","_","a","t">>,
      <<"d","e","s","c","r","i","p","t","i","o","n">>,
      <<"t","i","t","l","e">>,
      <<"c","o","n","t","e","n","t">>,
      <<"u","r","l">>,
      <<"e","m","a","i","l">>,
      <<"p","a","s","s","w","o","r","d">>,
      <<"r","o","l","e">>,
      <<"p","e","r","m","i","s","s","i","o","n","s">>,
      <<"s","e","t","t","i","n","g","s">>,
      <<"c","o","n","f","i","g">>,
      <<"o","p","t","i","o","n","s">>,
      <<"u","s","e","r","_","i","d">>,
      <<"p","a","r","e","n","t","_","i","d">>,
      <<"o","w","n","e","r">>,
      <<"g","r","o","u","p">>,
      <<"e","n","a","b","l","e","d">>,
      <<"a","c","t","i","v","e">>,
      <<"l","o","c","k","e","d">>,
      <<"v","i","s","i","b","l","e">>,
      <<"p","u","b","l","i","c">>,
      <<"p","r","i","v","a","t","e">>,
      <<"s","h","a","r","e","d">>,
      <<"e","r","r","o","r","s">>,
      <<"w","a","r","n","i","n","g","s">>,
      <<"m","e","s","s","a","g","e","s">>,
      <<"s","u","c","c","e","s","s">>,
      <<"e","r","r","o","r">>,
      <<"m","e","s","s","a","g","e">>,
      <<"c","o","d","e">>,
      <<"c","a","t","e","g","o","r","y">>,
      <<"c","u","s","t","o","m","e","r">>,
      <<"f","o","r","m","a","t">>,
      <<"i","t","e","m","s">>,
      <<"l","a","n","g","u","a","g","e">>,
      <<"l","o","c","a","l","e">>,
      <<"p","r","i","o","r","i","t","y">>,
      <<"r","e","s","u","l","t">>,
      <<"s","c","o","r","e">>,
      <<"s","c","o","r","e","s">>,
      <<"s","o","u","r","c","e">>,
      <<"s","t","a","t","e">>,
      <<"t","a","g","s">>,
      <<"t","a","r","g","e","t">>,
      <<"t","i","m","e","z","o","n","e">>,
      <<"v","e","r","s","i","o","n">>,
      <<"a","m","o","u","n","t">>,
      <<"c","u","r","r","e","n","c","y">>,
      <<"p","r","i","c","e">>,
      <<"q","u","a","n","t","i","t","y">>,
      <<"t","o","t","a","l">>,
      <<"s","u","b","t","o","t","a","l">>,
      <<"t","a","x">>,
      <<"d","i","s","c","o","u","n","t">>,
      <<"s","h","i","p","p","i","n","g">>,
      <<"h","a","n","d","l","i","n","g">>,
      <<"a">>,
      <<"b">>,
      <<"c">>,
      <<"d">>,
      <<"e">>,
      <<"f">>,
      <<"g">>,
      <<"h">>,
      <<"i">>,
      <<"j">>,
      <<"k">>,
      <<"l">>,
      <<"m">>,
      <<"n">>,
      <<"o">>,
      <<"p">>,
      <<"q">>,
      <<"r">>,
      <<"s">>,
      <<"t">>,
      <<"u">>,
      <<"v">>,
      <<"w">>,
      <<"x">>,
      <<"y">>,
      <<"z">>,
      <<"A">>,
      <<"B">>,
      <<"C">>,
      <<"D">>,
      <<"E">>,
      <<"F">>,
      <<"G">>,
      <<"H">>,
      <<"I">>,
      <<"J">>,
      <<"K">>,
      <<"L">>,
      <<"M">>,
      <<"N">>,
      <<"O">>,
      <<"P">>,
      <<"Q">>,
      <<"R">>,
      <<"S">>,
      <<"T">>,
      <<"U">>,
      <<"V">>,
      <<"W">>,
      <<"X">>,
      <<"Y">>,
      <<"Z">>,
      <<"c","h","a","i","n","_","i","d">>,
      <<"n","e","t","w","o","r","k">>,
      <<"m","a","i","n","n","e","t">>,
      <<"t","e","s","t","n","e","t">>,
      <<"b","l","o","c","k","_","n","u","m","b","e","r">>,
      <<"b","l","o","c","k","_","h","a","s","h">>,
      <<"b","l","o","c","k","_","t","i","m","e","s","t","a","m","p">>,
      <<"g","a","s","_","p","r","i","c","e">>,
      <<"g","a","s","_","l","i","m","i","t">>,
      <<"g","a","s","_","u","s","e","d">>,
      <<"n","o","n","c","e">>,
      <<"c","o","n","f","i","r","m","a","t","i","o","n","s">>,
      <<"t","x","_","h","a","s","h">>,
      <<"t","r","a","n","s","a","c","t","i","o","n","_","h","a","s","h">>,
      <<"f","r","o","m","_","a","d","d","r","e","s","s">>,
      <<"t","o","_","a","d","d","r","e","s","s">>,
      <<"i","n","p","u","t","_","d","a","t","a">>,
      <<"s","i","g","n","a","t","u","r","e">>,
      <<"s","i","g","n","e","d">>,
      <<"p","e","n","d","i","n","g">>,
      <<"c","o","n","f","i","r","m","e","d">>,
      <<"f","a","i","l","e","d">>,
      <<"r","e","v","e","r","t","e","d">>,
      <<"r","e","c","e","i","p","t">>,
      <<"a","d","d","r","e","s","s">>,
      <<"p","r","i","v","a","t","e","_","k","e","y">>,
      <<"p","u","b","l","i","c","_","k","e","y">>,
      <<"m","n","e","m","o","n","i","c">>,
      <<"s","e","e","d","_","p","h","r","a","s","e">>,
      <<"d","e","r","i","v","a","t","i","o","n","_","p","a","t","h">>,
      <<"w","a","l","l","e","t">>,
      <<"a","c","c","o","u","n","t">>,
      <<"b","a","l","a","n","c","e">>,
      <<"a","l","l","o","w","a","n","c","e">>,
      <<"c","o","n","t","r","a","c","t","_","a","d","d","r","e","s","s">>,
      <<"c","o","n","t","r","a","c","t","_","n","a","m","e">>,
      <<"a","b","i">>,
      <<"b","y","t","e","c","o","d","e">>,
      <<"d","e","p","l","o","y","e","d">>,
      <<"v","e","r","i","f","i","e","d">>,
      <<"i","m","p","l","e","m","e","n","t","a","t","i","o","n">>,
      <<"p","r","o","x","y">>,
      <<"d","e","l","e","g","a","t","e">>,
      <<"u","p","g","r","a","d","e","a","b","l","e">>,
      <<"t","o","k","e","n","_","a","d","d","r","e","s","s">>,
      <<"t","o","k","e","n","_","i","d">>,
      <<"t","o","k","e","n","_","u","r","i">>,
      <<"t","o","k","e","n","_","t","y","p","e">>,
      <<"s","y","m","b","o","l">>,
      <<"d","e","c","i","m","a","l","s">>,
      <<"t","o","t","a","l","_","s","u","p","p","l","y">>,
      <<"m","a","x","_","s","u","p","p","l","y">>,
      <<"c","i","r","c","u","l","a","t","i","n","g","_","s","u","p","p","l","y">>,
      <<"h","o","l","d","e","r","s">>,
      <<"t","r","a","n","s","f","e","r","s">>,
      <<"a","p","p","r","o","v","a","l","s">>,
      <<"c","o","l","l","e","c","t","i","o","n">>,
      <<"a","s","s","e","t","_","i","d">>,
      <<"m","e","t","a","d","a","t","a","_","u","r","i">>,
      <<"a","t","t","r","i","b","u","t","e","s">>,
      <<"r","a","r","i","t","y">>,
      <<"m","i","n","t","_","p","r","i","c","e">>,
      <<"m","i","n","t","_","d","a","t","e">>,
      <<"m","i","n","t","_","s","t","a","t","u","s">>,
      <<"r","o","y","a","l","t","i","e","s">>,
      <<"c","r","e","a","t","o","r">>,
      <<"o","w","n","e","r","_","h","i","s","t","o","r","y">>,
      <<"p","o","o","l">>,
      <<"p","a","i","r">>,
      <<"l","i","q","u","i","d","i","t","y">>,
      <<"r","e","s","e","r","v","e","s">>,
      <<"s","w","a","p">>,
      <<"s","t","a","k","e">>,
      <<"u","n","s","t","a","k","e">>,
      <<"y","i","e","l","d">>,
      <<"a","p","y">>,
      <<"a","p","r">>,
      <<"r","e","w","a","r","d","s">>,
      <<"f","a","r","m">>,
      <<"h","a","r","v","e","s","t">>,
      <<"c","o","l","l","a","t","e","r","a","l">>,
      <<"d","e","b","t">>,
      <<"b","o","r","r","o","w">>,
      <<"l","e","n","d">>,
      <<"r","e","p","a","y">>,
      <<"l","i","q","u","i","d","a","t","e">>,
      <<"p","r","o","p","o","s","a","l">>,
      <<"v","o","t","e">>,
      <<"q","u","o","r","u","m">>,
      <<"d","e","l","e","g","a","t","i","o","n">>,
      <<"s","n","a","p","s","h","o","t">>,
      <<"v","o","t","i","n","g","_","p","o","w","e","r">>,
      <<"t","i","m","e","l","o","c","k">>,
      <<"e","x","e","c","u","t","o","r">>,
      <<"d","a","o">>,
      <<"e","r","c","2","0">>,
      <<"e","r","c","7","2","1">>,
      <<"e","r","c","1","1","5","5">>,
      <<"u","n","i","s","w","a","p">>,
      <<"s","u","s","h","i","s","w","a","p">>,
      <<"c","o","m","p","o","u","n","d">>,
      <<"a","a","v","e">>,
      <<"m","a","k","e","r">>,
      <<"c","h","a","i","n","l","i","n","k">>,
      <<"o","r","a","c","l","e">>,
      <<"p","r","i","c","e","_","f","e","e","d">>,
      <<"c","o","n","s","e","n","s","u","s">>,
      <<"p","o","w">>,
      <<"p","o","s">>,
      <<"v","a","l","i","d","a","t","o","r">>,
      <<"n","o","d","e">>,
      <<"p","e","e","r">>,
      <<"s","y","n","c","_","s","t","a","t","u","s">>,
      <<"n","e","t","w","o","r","k","_","i","d">>,
      <<"r","p","c","_","u","r","l">>,
      <<"w","e","b","s","o","c","k","e","t">>,
      <<"s","i","g","n","a","t","u","r","e","_","t","y","p","e">>,
      <<"s","i","g","n","e","d","_","m","e","s","s","a","g","e">>,
      <<"r","e","c","o","v","e","r","e","d","_","a","d","d","r","e","s","s">>,
      <<"m","e","r","k","l","e","_","r","o","o","t">>,
      <<"m","e","r","k","l","e","_","p","r","o","o","f">>,
      <<"w","h","i","t","e","l","i","s","t">>,
      <<"b","l","a","c","k","l","i","s","t">>,
      <<"p","a","u","s","e","d">>,
      <<"f","r","o","z","e","n">>,
      <<"e","v","e","n","t","_","n","a","m","e">>,
      <<"e","v","e","n","t","_","s","i","g","n","a","t","u","r","e">>,
      <<"l","o","g","_","i","n","d","e","x">>,
      <<"t","o","p","i","c","s">>,
      <<"i","n","d","e","x","e","d">>,
      <<"f","i","l","t","e","r","s">>,
      <<"s","u","b","s","c","r","i","p","t","i","o","n">>,
      <<"l","2">>,
      <<"r","o","l","l","u","p">>,
      <<"o","p","t","i","m","i","s","t","i","c">>,
      <<"z","k">>,
      <<"b","r","i","d","g","e">>,
      <<"c","h","a","n","n","e","l">>,
      <<"b","a","t","c","h">>,
      <<"p","r","o","o","f">>,
      <<"c","o","m","m","i","t","m","e","n","t">>,
      <<"i","p","f","s","_","h","a","s","h">>,
      <<"c","i","d">>,
      <<"p","i","n","n","e","d">>,
      <<"s","t","o","r","a","g","e","_","p","r","o","v","i","d","e","r">>,
      <<"a","r","w","e","a","v","e">>,
      <<"f","i","l","e","c","o","i","n">>,
      <<"w","e","b","3">>,
      <<"p","r","o","v","i","d","e","r">>,
      <<"s","i","g","n","e","r">>,
      <<"c","h","a","i","n">>,
      <<"e","x","p","l","o","r","e","r","_","u","r","l">>,
      <<"f","i","a","t","_","v","a","l","u","e">>,
      <<"g","a","s","_","t","o","k","e","n">> }

(***************************************************************************)
(* Python values.  Guest values and host terms are Python objects of the   *)
(* same universe; a record [tag, v] is one object.  A dict is its sequence *)
(* of <<key, value>> pairs in insertion order, keys pairwise distinct.     *)
(***************************************************************************)
PyNone == [tag |-> "none", v |-> <<>>]
PyBool(b) == [tag |-> "bool", v |-> b]
PyInt(n) == [tag |-> "int", v |-> n]
PyStr(s) == [tag |-> "str", v |-> s]
PyBytes(b) == [tag |-> "bytes", v |-> b]
PyList(xs) == [tag |-> "list", v |-> xs]
PyTuple(xs) == [tag |-> "tuple", v |-> xs]
PyDict(kvs) == [tag |-> "dict", v |-> kvs]

\* Atom(name): the name is kept as bytes
Atom(name) == [tag |-> "atom", v |-> name]

\* The outcome of a call: a returned value or a raised exception
Return(v) == [ok |-> TRUE, v |-> v]
Raise(type, msg) == [ok |-> FALSE, v |-> [type |-> type, msg |-> msg]]

\* type(x).__name__
TypeName(x) ==
    CASE x.tag = "none" -> <<"N","o","n","e","T","y","p","e">>
      [] x.tag = "bool" -> <<"b","o","o","l">>
      [] x.tag = "int" -> <<"i","n","t">>
      [] x.tag = "str" -> <<"s","t","r">>
      [] x.tag = "bytes" -> <<"b","y","t","e","s">>
      [] x.tag = "list" -> <<"l","i","s","t">>
      [] x.tag = "tuple" -> <<"t","u","p","l","e">>
      [] x.tag = "dict" -> <<"d","i","c","t">>
      [] x.tag = "function" -> <<"f","u","n","c","t","i","o","n">>
      [] x.tag = "class" -> <<"t","y","p","e">>
      [] x.tag = "object" -> x.v.v.name
      [] OTHER -> <<"A","t","o","m">>

\* the AttributeError of x.attr for an object without that attribute
NoAttribute(x, attr) ==
    Raise(T_AttributeError, T_quote \o TypeName(x) \o T_no_attr \o attr \o T_quote)

(***************************************************************************)
(* str methods and UTF-8.                                                  *)
(***************************************************************************)
LowerLetters ==
    <<"a","b","c","d","e","f","g","h","i","j","k","l","m",
      "n","o","p","q","r","s","t","u","v","w","x","y","z","U+E9">>
UpperLetters ==
    <<"A","B","C","D","E","F","G","H","I","J","K","L","M",
      "N","O","P","Q","R","S","T","U","V","W","X","Y","Z","U+C9">>

\* str.upper() and str.lower() of one character
upper(c) ==
    IF \E i \in 1..Len(LowerLetters) : LowerLetters[i] = c
    THEN UpperLetters[CHOOSE i \in 1..Len(LowerLetters) : LowerLetters[i] = c]
    ELSE c
lower(c) ==
    IF \E i \in 1..Len(UpperLetters) : UpperLetters[i] = c
    THEN LowerLetters[CHOOSE i \in 1..Len(UpperLetters) : UpperLetters[i] = c]
    ELSE c

\* str.capitalize(): first character upper-cased, the rest lower-cased
capitalize(s) ==
    [i \in 1..Len(s) |-> IF i = 1 THEN upper(s[i]) ELSE lower(s[i])]

\* str.split('.')
RECURSIVE split(_)
split(s) ==
    IF \A i \in 1..Len(s) : s[i] # "."
    THEN <<s>>
    ELSE LET i == CHOOSE i \in 1..Len(s) : s[i] = "." /\ \A j \in 1..(i-1) : s[j] # "."
         IN  <<SubSeq(s, 1, i-1)>> \o split(SubSeq(s, i+1, Len(s)))

\* '.'.join(parts)
RECURSIVE join(_)
join(parts) ==
    IF parts = <<>> THEN <<>>
    ELSE IF Len(parts) = 1 THEN parts[1]
    ELSE parts[1] \o <<".">> \o join(Tail(parts))

\* a character encoded as Latin-1 instead of UTF-8
Latin1Char(c) ==
    CASE c = "U+E9" -> <<"xE9">>
      [] c = "U+C9" -> <<"xC9">>
      [] OTHER -> <<c>>

\* str.encode('utf-8')
Utf8Char(c) ==
    CASE c = "U+E9" -> <<"xC3","xA9">>
      [] c = "U+C9" -> <<"xC3","x89">>
      [] OTHER -> <<c>>
RECURSIVE utf8_encode(_)
utf8_encode(s) ==
    IF s = <<>> THEN <<>> ELSE Utf8Char(Head(s)) \o utf8_encode(Tail(s))

\* bytes.decode('utf-8'): Return(text), or UnicodeDecodeError on a lead byte
\* without its continuation byte or on a stray continuation byte
ContinuationBytes == {"xA9", "x89"}
RECURSIVE utf8_decode(_)
utf8_decode(b) ==
    IF b = <<>> THEN Return(<<>>)
    ELSE IF Head(b) = "xC3"
    THEN IF Len(b) >= 2 /\ b[2] \in ContinuationBytes
         THEN LET rest == utf8_decode(SubSeq(b, 3, Len(b)))
              IN  IF rest.ok
                  THEN Return(<<IF b[2] = "xA9" THEN "U+E9" ELSE "U+C9">> \o rest.v)
                  ELSE rest
         ELSE Raise(T_UnicodeDecodeError, T_decode_msg)
    ELSE IF Head(b) \in ContinuationBytes
    THEN Raise(T_UnicodeDecodeError, T_decode_msg)
    ELSE LET rest == utf8_decode(Tail(b))
         IN  IF rest.ok THEN Return(<<Head(b)>> \o rest.v) ELSE rest

(***************************************************************************)
(* dict operations.                                                        *)
(***************************************************************************)
\* key in d
HasKey(kvs, k) == \E i \in 1..Len(kvs) : kvs[i][1] = k
\* d[key], for a key of d
Get(kvs, k) == kvs[CHOOSE i \in 1..Len(kvs) : kvs[i][1] = k][2]
\* d[key] = value: an existing key keeps its place, a new one goes last
Put(kvs, k, x) ==
    IF HasKey(kvs, k)
    THEN [i \in 1..Len(kvs) |-> IF kvs[i][1] = k THEN <<k, x>> ELSE kvs[i]]
    ELSE Append(kvs, <<k, x>>)
\* del d[key]
Del(kvs, k) == SelectSeq(kvs, LAMBDA kv : kv[1] # k)
Keys(kvs) == {kvs[i][1] : i \in 1..Len(kvs)}
RECURSIVE Hashable(_)
Hashable(x) ==
    /\ x.tag \notin {"list", "dict"}
    /\ x.tag = "tuple" => \A i \in 1..Len(x.v) : Hashable(x.v[i])
Unhashable(x) == Raise(T_TypeError, T_unhashable \o TypeName(x) \o T_quote)

(***************************************************************************)
(* safe_atoms.py                                                           *)
(***************************************************************************)
\* str(x) of a dict key, as the f-string of safe_atom formats it
RECURSIVE Digits(_)
Digits(n) ==
    LET d == <<"0","1","2","3","4","5","6","7","8","9">>
    IN  IF n < 10 THEN <<d[n + 1]>> ELSE Digits(n \div 10) \o <<d[(n % 10) + 1]>>
py_str(x) ==
    CASE x.tag = "str" -> x.v
      [] x.tag = "int" -> IF x.v < 0 THEN <<"-">> \o Digits(0 - x.v) ELSE Digits(x.v)
      [] x.tag = "none" -> T_None
      [] x.tag = "bool" -> IF x.v THEN <<"T","r","u","e">> ELSE <<"F","a","l","s","e">>
      [] x.tag = "bytes" -> <<"b","'">> \o x.v \o <<"'">>
      [] x.tag = "atom" -> x.v
      [] OTHER -> TypeName(x)

\* SAFE_ATOMS right after import: nothing added to the literal, nothing removed
AsImported == [added |-> {}, removed |-> {}]

\* name in SAFE_ATOMS, for the set as the process holds it now
in_allowlist(n) ==
    (n \in SAFE_ATOMS /\ n \notin allowlist.removed) \/ n \in allowlist.added

\* any text made an Atom, the set not consulted
safe_atom_open(name) ==
    IF name.tag = "str"
    THEN Return(Atom(utf8_encode(name.v)))
    ELSE Raise(T_UnsafeAtomError, T_unsafe_msg \o py_str(name))

\* safe_atom(name): the Atom, or UnsafeAtomError
safe_atom(name) ==
    IF name.tag = "str" /\ in_allowlist(name.v)
    THEN Return(Atom(utf8_encode(name.v)))
    ELSE Raise(T_UnsafeAtomError, T_unsafe_msg \o py_str(name))

\* safe_struct_keys(struct_dict): {safe_atom(k): v for k, v in struct_dict.items()}
RECURSIVE safe_struct_keys_from(_, _)
safe_struct_keys_from(kvs, acc) ==
    IF kvs = <<>> THEN Return(PyDict(acc))
    ELSE LET k == safe_atom(kvs[1][1])
         IN  IF ~k.ok THEN k
             ELSE safe_struct_keys_from(Tail(kvs), Put(acc, k.v, kvs[1][2]))
safe_struct_keys(struct_dict) == safe_struct_keys_from(struct_dict.v, <<>>)

(***************************************************************************)
(* src/priv/python/lux/eval.py: encode_term, decode_term                   *)
(***************************************************************************)
RECURSIVE encode_term(_), encode_items(_), encode_struct_items(_, _),
          encode_dict_items(_, _)

\* lines 47-52: 'Elixir.' + '.'.join(p.capitalize() for p in class_name.split('.'))
module_name(class_name) ==
    IF class_name.tag = "str"
    THEN LET module_parts == split(class_name.v)
         IN  Return(T_Elixir \o
                    join([i \in 1..Len(module_parts) |-> capitalize(module_parts[i])]))
    ELSE IF class_name.tag = "bytes"
    THEN Raise(T_TypeError, T_bytes_like)
    ELSE NoAttribute(class_name, T_split)

\* line 42: [encode_term(item) for item in term]
encode_items(xs) ==
    IF xs = <<>> THEN Return(<<>>)
    ELSE LET h == encode_term(Head(xs))
         IN  IF ~h.ok THEN h
             ELSE LET t == encode_items(Tail(xs))
                  IN  IF ~t.ok THEN t ELSE Return(<<h.v>> \o t.v)

\* a struct field key made an Atom without asking the allowlist
struct_key_unchecked(k) ==
    IF k.tag = "str" THEN Return(Atom(utf8_encode(k.v))) ELSE safe_atom(k)

\* the key of one struct field (line 60)
struct_key(k) == safe_atom(k)

\* lines 59-62: {safe_atom(k): encode_term(v) for k, v in struct_dict.items()}
encode_struct_items(kvs, acc) ==
    IF kvs = <<>> THEN Return(acc)
    ELSE LET k == struct_key(kvs[1][1])
         IN  IF ~k.ok THEN k
             ELSE LET x == encode_term(kvs[1][2])
                  IN  IF ~x.ok THEN x
                      ELSE encode_struct_items(Tail(kvs), Put(acc, k.v, x.v))

\* line 65: encoded_dict[safe_atom('__struct__')] = Atom(module_name.encode('utf-8'))
add_struct(term, encoded_dict, name) ==
    Put(encoded_dict, safe_atom(PyStr(T_struct)).v, Atom(utf8_encode(name)))

\* lines 67-68: except UnsafeAtomError as e
unsafe_atom_handler(e) ==
    Return(PyTuple(<<Atom(T_error), PyStr(T_UnsafeAtomError \o T_colon \o e.msg)>>))

\* struct_dict = term, no copy: the deletion acts on the caller's dict
without_class_in_place(kvs) ==
    [struct_dict |-> Del(kvs, PyStr(T_class)), term |-> Del(kvs, PyStr(T_class))]

\* lines 55-56: struct_dict = term.copy(); del struct_dict["__class__"]: the
\* dict the fields are read from, and the caller's dict after the deletion
without_class(kvs) ==
    [struct_dict |-> Del(kvs, PyStr(T_class)), term |-> kvs]

\* lines 45-68: the struct conversion of a dict holding '__class__'
encode_struct(term) ==
    LET m == module_name(Get(term.v, PyStr(T_class)))
    IN  IF ~m.ok THEN m
        ELSE LET struct_dict == without_class(term.v).struct_dict
                 e == encode_struct_items(struct_dict, <<>>)
             IN  IF e.ok THEN Return(PyDict(add_struct(term, e.v, m.v)))
                 ELSE IF e.v.type = T_UnsafeAtomError THEN unsafe_atom_handler(e.v)
                 ELSE e

\* line 71: {encode_term(k): encode_term(v) for k, v in term.items()}
encode_dict_items(kvs, acc) ==
    IF kvs = <<>> THEN Return(acc)
    ELSE LET k == encode_term(kvs[1][1])
         IN  IF ~k.ok THEN k
             ELSE LET x == encode_term(kvs[1][2])
                  IN  IF ~x.ok THEN x
                      ELSE IF ~Hashable(k.v) THEN Unhashable(k.v)
                      ELSE encode_dict_items(Tail(kvs), Put(acc, k.v, x.v))

\* line 36: the term of None
encode_none == Atom(T_nil)

\* lines 33-72
encode_term(term) ==
    CASE term.tag = "none" -> Return(encode_none)
      [] term.tag = "str" -> Return(PyBytes(utf8_encode(term.v)))
      [] term.tag \in {"int", "bool"} -> Return(term)
      [] term.tag \in {"list", "tuple"} ->
            LET xs == encode_items(term.v)
            IN  IF xs.ok THEN Return(PyList(xs.v)) ELSE xs
      [] term.tag = "dict" ->
            IF HasKey(term.v, PyStr(T_class))
            THEN encode_struct(term)
            ELSE LET kvs == encode_dict_items(term.v, <<>>)
                 IN  IF kvs.ok THEN Return(PyDict(kvs.v)) ELSE kvs
      [] OTHER -> Return(term)

RECURSIVE decode_term(_), decode_items(_), decode_dict_items(_, _)

\* line 79: [decode_term(item) for item in term]
decode_items(xs) ==
    IF xs = <<>> THEN Return(<<>>)
    ELSE LET h == decode_term(Head(xs))
         IN  IF ~h.ok THEN h
             ELSE LET t == decode_items(Tail(xs))
                  IN  IF ~t.ok THEN t ELSE Return(<<h.v>> \o t.v)

\* line 81: {decode_term(k): decode_term(v) for k, v in term.items()}
decode_dict_items(kvs, acc) ==
    IF kvs = <<>> THEN Return(acc)
    ELSE LET k == decode_term(kvs[1][1])
         IN  IF ~k.ok THEN k
             ELSE LET x == decode_term(kvs[1][2])
                  IN  IF ~x.ok THEN x
                      ELSE IF ~Hashable(k.v) THEN Unhashable(k.v)
                      ELSE decode_dict_items(Tail(kvs), Put(acc, k.v, x.v))

\* lines 76-77 and 82-83: Atom and bytes both become text
decode_text(b) ==
    LET s == utf8_decode(b) IN IF s.ok THEN Return(PyStr(s.v)) ELSE s

\* a list decoded to a tuple
decode_term_to_tuple(term) ==
    CASE term.tag = "atom" -> decode_text(term.v)
      [] term.tag \in {"list", "tuple"} ->
            LET xs == decode_items(term.v)
            IN  IF xs.ok THEN Return(PyTuple(xs.v)) ELSE xs
      [] term.tag = "dict" ->
            LET kvs == decode_dict_items(term.v, <<>>)
            IN  IF kvs.ok THEN Return(PyDict(kvs.v)) ELSE kvs
      [] term.tag = "bytes" -> decode_text(term.v)
      [] OTHER -> Return(term)

\* lines 74-84
decode_term(term) ==
    CASE term.tag = "atom" -> decode_text(term.v)
      [] term.tag \in {"list", "tuple"} ->
            LET xs == decode_items(term.v)
            IN  IF xs.ok THEN Return(PyList(xs.v)) ELSE xs
      [] term.tag = "dict" ->
            LET kvs == decode_dict_items(term.v, <<>>)
            IN  IF kvs.ok THEN Return(PyDict(kvs.v)) ELSE kvs
      [] term.tag = "bytes" -> decode_text(term.v)
      [] OTHER -> Return(term)

(***************************************************************************)
(* src/lux/priv/python/lux/eval.py: encode_term, decode_term               *)
(***************************************************************************)
RECURSIVE lux_encode_term(_), lux_encode_items(_), lux_encode_struct_items(_, _),
          lux_encode_dict_items(_, _)

\* line 48: p[0].upper() + p[1:].lower(), IndexError on an empty segment
lux_capitalize(p) ==
    IF p = <<>> THEN Raise(T_IndexError, T_index_msg)
    ELSE Return([i \in 1..Len(p) |-> IF i = 1 THEN upper(p[i]) ELSE lower(p[i])])

\* lines 45-50
lux_module_name(class_name) ==
    IF class_name.tag = "str"
    THEN LET module_parts == split(class_name.v)
             caps == [i \in 1..Len(module_parts) |-> lux_capitalize(module_parts[i])]
         IN  IF \E i \in 1..Len(caps) : ~caps[i].ok
             THEN caps[CHOOSE i \in 1..Len(caps) :
                          ~caps[i].ok /\ \A j \in 1..(i-1) : caps[j].ok]
             ELSE Return(T_Elixir \o join([i \in 1..Len(caps) |-> caps[i].v]))
    ELSE IF class_name.tag = "bytes"
    THEN Raise(T_TypeError, T_bytes_like)
    ELSE NoAttribute(class_name, T_split)

\* lines 39 and 41
lux_encode_items(xs) ==
    IF xs = <<>> THEN Return(<<>>)
    ELSE LET h == lux_encode_term(Head(xs))
         IN  IF ~h.ok THEN h
             ELSE LET t == lux_encode_items(Tail(xs))
                  IN  IF ~t.ok THEN t ELSE Return(<<h.v>> \o t.v)

\* line 59: Atom(k.encode('utf-8'))
lux_struct_key(k) ==
    IF k.tag = "str" THEN Return(Atom(utf8_encode(k.v))) ELSE NoAttribute(k, T_encode)

\* lines 57-59
lux_encode_struct_items(kvs, acc) ==
    IF kvs = <<>> THEN Return(acc)
    ELSE LET k == lux_struct_key(kvs[1][1])
         IN  IF ~k.ok THEN k
             ELSE LET x == lux_encode_term(kvs[1][2])
                  IN  IF ~x.ok THEN x
                      ELSE lux_encode_struct_items(Tail(kvs), Put(acc, k.v, x.v))

\* lines 62-63: if not "__struct__" in term: encoded_dict[Atom(b'__struct__')] = ...
lux_add_struct(term, encoded_dict, name) ==
    IF ~HasKey(term.v, PyStr(T_struct))
    THEN Put(encoded_dict, Atom(T_struct), Atom(utf8_encode(name)))
    ELSE encoded_dict

\* lines 43-64
lux_encode_struct(term) ==
    LET m == lux_module_name(Get(term.v, PyStr(T_class)))
    IN  IF ~m.ok THEN m
        ELSE LET struct_dict == without_class(term.v).struct_dict
                 e == lux_encode_struct_items(struct_dict, <<>>)
             IN  IF e.ok THEN Return(PyDict(lux_add_struct(term, e.v, m.v))) ELSE e

\* line 67
lux_encode_dict_items(kvs, acc) ==
    IF kvs = <<>> THEN Return(acc)
    ELSE LET k == lux_encode_term(kvs[1][1])
         IN  IF ~k.ok THEN k
             ELSE LET x == lux_encode_term(kvs[1][2])
                  IN  IF ~x.ok THEN x
                      ELSE IF ~Hashable(k.v) THEN Unhashable(k.v)
                      ELSE lux_encode_dict_items(Tail(kvs), Put(acc, k.v, x.v))

\* lines 30-68
lux_encode_term(term) ==
    CASE term.tag = "none" -> Return(Atom(T_nil))
      [] term.tag = "str" -> Return(PyBytes(utf8_encode(term.v)))
      [] term.tag \in {"int", "bool"} -> Return(term)
      [] term.tag = "tuple" ->
            LET xs == lux_encode_items(term.v)
            IN  IF xs.ok THEN Return(PyTuple(xs.v)) ELSE xs
      [] term.tag = "list" ->
            LET xs == lux_encode_items(term.v)
            IN  IF xs.ok THEN Return(PyList(xs.v)) ELSE xs
      [] term.tag = "dict" ->
            IF HasKey(term.v, PyStr(T_class))
            THEN lux_encode_struct(term)
            ELSE LET kvs == lux_encode_dict_items(term.v, <<>>)
                 IN  IF kvs.ok THEN Return(PyDict(kvs.v)) ELSE kvs
      [] OTHER -> Return(term)

RECURSIVE lux_decode_term(_), lux_decode_items(_), lux_decode_dict_items(_, _)

\* lines 75 and 77
lux_decode_items(xs) ==
    IF xs = <<>> THEN Return(<<>>)
    ELSE LET h == lux_decode_term(Head(xs))
         IN  IF ~h.ok THEN h
             ELSE LET t == lux_decode_items(Tail(xs))
                  IN  IF ~t.ok THEN t ELSE Return(<<h.v>> \o t.v)

\* line 79
lux_decode_dict_items(kvs, acc) ==
    IF kvs = <<>> THEN Return(acc)
    ELSE LET k == lux_decode_term(kvs[1][1])
         IN  IF ~k.ok THEN k
             ELSE LET x == lux_decode_term(kvs[1][2])
                  IN  IF ~x.ok THEN x
                      ELSE IF ~Hashable(k.v) THEN Unhashable(k.v)
                      ELSE lux_decode_dict_items(Tail(kvs), Put(acc, k.v, x.v))

\* lines 70-82
lux_decode_term(term) ==
    CASE term.tag = "atom" -> decode_text(term.v)
      [] term.tag = "tuple" ->
            LET xs == lux_decode_items(term.v)
            IN  IF xs.ok THEN Return(PyTuple(xs.v)) ELSE xs
      [] term.tag = "list" ->
            LET xs == lux_decode_items(term.v)
            IN  IF xs.ok THEN Return(PyList(xs.v)) ELSE xs
      [] term.tag = "dict" ->
            LET kvs == lux_decode_dict_items(term.v, <<>>)
            IN  IF kvs.ok THEN Return(PyDict(kvs.v)) ELSE kvs
      [] term.tag = "bytes" -> decode_text(term.v)
      [] OTHER -> Return(term)

(***************************************************************************)
(* Helpers of the properties: what occurs in a value.                      *)
(***************************************************************************)
\* a dict compared as Python compares dicts: without the insertion order
RECURSIVE Canon(_)
Canon(x) ==
    CASE x.tag \in {"list", "tuple"} ->
            [tag |-> x.tag, v |-> [i \in 1..Len(x.v) |-> Canon(x.v[i])]]
      [] x.tag = "dict" ->
            [tag |-> "dict",
             v |-> {<<Canon(x.v[i][1]), Canon(x.v[i][2])>> : i \in 1..Len(x.v)}]
      [] OTHER -> x

RECURSIVE UnionOf(_)
UnionOf(sets) ==
    IF sets = <<>> THEN {} ELSE Head(sets) \cup UnionOf(Tail(sets))

\* every object nested in x, x included (keys and values of dicts too)
RECURSIVE Parts(_)
Parts(x) ==
    {x} \cup
    (CASE x.tag \in {"list", "tuple"} ->
            UnionOf([i \in 1..Len(x.v) |-> Parts(x.v[i])])
       [] x.tag = "dict" ->
            UnionOf([i \in 1..Len(x.v) |-> Parts(x.v[i][1]) \cup Parts(x.v[i][2])])
       [] OTHER -> {})

\* the names of the Atoms of x, and of those that are keys of a mapping
AtomNames(x) == {p.v : p \in {q \in Parts(x) : q.tag = "atom"}}
AtomKeyNames(x) ==
    UNION {{k.v : k \in {q \in Keys(d.v) : q.tag = "atom"}} :
           d \in {q \in Parts(x) : q.tag = "dict"}}
SafeAtomNames == {utf8_encode(n) : n \in SAFE_ATOMS}

\* a guest dict that takes the struct conversion, and its field names
IsStruct(x) == x.tag = "dict" /\ HasKey(x.v, PyStr(T_class))
FieldKeys(x) == Keys(x.v) \ {PyStr(T_class)}
IsSafeName(k) == k.tag = "str" /\ k.v \in SAFE_ATOMS
HasUnsafeStruct(x) ==
    \E d \in Parts(x) : IsStruct(d) /\ \E k \in FieldKeys(d) : ~IsSafeName(k)

\* the ErrorPair: (Atom 'error', detail)
IsErrorPair(x) ==
    x.tag = "tuple" /\ Len(x.v) = 2 /\ x.v[1] = Atom(T_error)

(***************************************************************************)
(* The codec, driven by a caller that builds a value and then calls        *)
(* encode_term and decode_term on it.                                      *)
(***************************************************************************)
Impls == {"priv", "lux"}

Leaves ==
    { PyNone, PyBool(TRUE), PyInt(1), PyStr(<<"a", "U+E9">>),
      PyBytes(<<"xC3", "xA9">>), PyBytes(<<"xA9">>), Atom(T_nil), Atom(T_user) }

Encode(x) == IF impl = "priv" THEN encode_term(x) ELSE lux_encode_term(x)
Decode(x) == IF impl = "priv" THEN decode_term(x) ELSE lux_decode_term(x)

\* no execute call
NoCall ==
    [code |-> <<>>, bindings |-> PyNone, pc |-> "idle", globals_dict |-> <<>>,
     trace |-> <<>>, caught |-> <<>>, result |-> Return(PyNone)]

ExecIdle ==
    /\ code = <<>> /\ bindings = <<>> /\ pc = "idle"
    /\ globals_dict = <<>> /\ trace = <<>> /\ caught = <<>>
    /\ result = Return(PyNone)
    /\ builtins = <<>>
    /\ parked = NoCall

InitCodec ==
    /\ impl \in Impls
    /\ allowlist = AsImported
    /\ input \in Leaves
    /\ depth = 0
    /\ ops = <<>>
    /\ out = Return(input)
    /\ cls = <<>>
    /\ ExecIdle

Built(x) ==
    /\ ops = <<>>
    /\ depth < MaxDepth
    /\ input' = x
    /\ depth' = depth + 1
    /\ out' = Return(x)
    /\ UNCHANGED <<impl, allowlist, ops, cls, execVars>>

\* the caller wraps the value in a list or a tuple
WrapList ==
    \E x \in {PyList(<<input>>), PyList(<<PyInt(1), input>>), PyTuple(<<input>>)} :
        Built(x)

\* ... in a dict without '__class__' (guest keys, term keys, colliding keys)
WrapDict ==
    \E x \in {PyDict(<< <<PyStr(T_name), input>> >>),
              PyDict(<< <<PyBytes(T_name), input>>, <<PyInt(1), PyBool(TRUE)>> >>),
              PyDict(<< <<Atom(T_name), input>> >>),
              PyDict(<< <<PyStr(T_name), PyInt(1)>>, <<PyBytes(T_name), input>> >>),
              PyDict(<< <<PyBytes(T_class), PyBytes(T_user)>>,
                        <<PyBytes(T_name), input>> >>),
              PyDict(<< <<PyInt(1), input>>, <<PyStr(T_name), PyBool(TRUE)>> >>),
              PyDict(<< <<PyNone, input>>, <<PyStr(T_nil), PyInt(1)>> >>)} :
        Built(x)

\* ... in a dict with '__class__'
WrapStruct ==
    \E x \in {PyDict(<< <<PyStr(T_class), PyStr(T_user)>>, <<PyStr(T_name), input>> >>),
              PyDict(<< <<PyStr(T_class), PyStr(T_user)>>,
                        <<PyStr(T_last_login), input>> >>),
              PyDict(<< <<PyStr(T_class), PyStr(T_user)>>,
                        <<PyStr(T_struct), input>> >>),
              PyDict(<< <<PyStr(T_role), input>>, <<PyStr(T_class), PyStr(T_user)>>,
                        <<PyStr(T_name), PyInt(1)>> >>),
              PyDict(<< <<PyStr(T_class), PyInt(1)>>, <<PyStr(T_name), input>> >>),
              PyDict(<< <<PyStr(T_class), PyStr(T_user)>>, <<PyInt(1), input>> >>)} :
        Built(x)

\* the argument of encode_term as the call leaves it: the objects nested in it
\* are the ones the recursive calls are given
RECURSIVE encode_leaves(_)
encode_leaves(term) ==
    CASE term.tag \in {"list", "tuple"} ->
            [tag |-> term.tag, v |-> [i \in 1..Len(term.v) |-> encode_leaves(term.v[i])]]
      [] term.tag = "dict" ->
            LET m == IF impl = "priv" THEN module_name(Get(term.v, PyStr(T_class)))
                     ELSE lux_module_name(Get(term.v, PyStr(T_class)))
                kvs == IF HasKey(term.v, PyStr(T_class)) /\ m.ok
                       THEN without_class(term.v).term
                       ELSE term.v
            IN  PyDict([i \in 1..Len(kvs) |-> <<kvs[i][1], encode_leaves(kvs[i][2])>>])
      [] OTHER -> term

\* encode_term(x) where x is the value built, or what decode_term returned
CallEncode ==
    /\ ops \in {<<>>, <<"decode">>}
    /\ out.ok
    /\ out' = Encode(out.v)
    /\ ops' = Append(ops, "encode")
    /\ input' = IF ops = <<>> THEN encode_leaves(input) ELSE input
    /\ UNCHANGED <<impl, allowlist, depth, cls, execVars>>

\* encode_term of the value built, a second time
CallEncodeAgain ==
    /\ ops = <<"encode">>
    /\ out' = Encode(input)
    /\ ops' = Append(ops, "encode")
    /\ input' = encode_leaves(input)
    /\ UNCHANGED <<impl, allowlist, depth, cls, execVars>>

CallDecode ==
    /\ ops \in {<<>>, <<"encode">>}
    /\ out.ok
    /\ out' = Decode(out.v)
    /\ ops' = Append(ops, "decode")
    /\ UNCHANGED <<impl, allowlist, input, depth, cls, execVars>>

NextCodec ==
    WrapList \/ WrapDict \/ WrapStruct \/ CallEncode \/ CallDecode \/ CallEncodeAgain

SpecCodec == InitCodec /\ [][NextCodec]_vars

(***************************************************************************)
(* The caller types a '__class__' string character by character and        *)
(* encodes a struct of that class.                                         *)
(***************************************************************************)
ClassAlphabet == {"a", "B", ".", "U+E9"}

StructOfClass(c) ==
    PyDict(<< <<PyStr(T_class), PyStr(c)>>, <<PyStr(T_name), PyInt(1)>> >>)

InitModule ==
    /\ impl \in Impls
    /\ allowlist = AsImported
    /\ cls = <<>>
    /\ input = StructOfClass(<<>>)
    /\ depth = 1
    /\ ops = <<>>
    /\ out = Return(input)
    /\ ExecIdle

TypeChar ==
    /\ ops = <<>>
    /\ Len(cls) < MaxClassLen
    /\ \E c \in ClassAlphabet : cls' = Append(cls, c)
    /\ input' = StructOfClass(cls')
    /\ out' = Return(input')
    /\ UNCHANGED <<impl, allowlist, depth, ops, execVars>>

NextModule == TypeChar \/ CallEncode

SpecModule == InitModule /\ [][NextModule]_vars

(***************************************************************************)
(* Properties of the codec.                                                *)
(***************************************************************************)
Encoded == ops = <<"encode">>
ClassIsText(x) == Get(x.v, PyStr(T_class)).tag = "str"
AllClassesText(x) == \A d \in Parts(x) : IsStruct(d) => ClassIsText(d)

NoneKeyNames(x) ==
    IF \E d \in Parts(x) : d.tag = "dict" /\ HasKey(d.v, PyNone) THEN {T_nil} ELSE {}

C2_StrictAbortsWholeEncode ==
    (impl = "priv" /\ Encoded /\ HasUnsafeStruct(input) /\ AllClassesText(input))
        => (out.ok /\ IsErrorPair(out.v))

\* a Term: Symbol, Bool, Int, Bytes, Sequence, Mapping
RECURSIVE IsTerm(_)
IsTerm(x) ==
    CASE x.tag \in {"atom", "bool", "int", "bytes"} -> TRUE
      [] x.tag = "list" -> \A i \in 1..Len(x.v) : IsTerm(x.v[i])
      [] x.tag = "dict" -> \A i \in 1..Len(x.v) : IsTerm(x.v[i][1]) /\ IsTerm(x.v[i][2])
      [] OTHER -> FALSE
\* a mapping whose decoding holds the key '__class__'
StructShaped(x) ==
    x.tag = "dict" /\ (HasKey(x.v, PyBytes(T_class)) \/ HasKey(x.v, Atom(T_class)))
NoStructShaped(x) == \A d \in Parts(x) : ~StructShaped(d)
ValidUtf8(x) == \A b \in Parts(x) : b.tag = "bytes" => utf8_decode(b.v).ok

SafeStructInput ==
    /\ IsStruct(input)
    /\ ClassIsText(input)
    /\ \A k \in FieldKeys(input) : IsSafeName(k) /\ Encode(Get(input.v, k)).ok

\* C4 (as claimed): the result of struct conversion has no '__class__' entry,
\* has the key Atom('__struct__'), has Atom(k) -> encode_term(d[k]) for every
\* other key k of d, and nothing else
C4_StructShape ==
    (Encoded /\ SafeStructInput)
        => /\ out.ok
           /\ out.v.tag = "dict"
           /\ Keys(out.v.v) \cap {PyStr(T_class), PyBytes(T_class), Atom(T_class)} = {}
           /\ HasKey(out.v.v, Atom(T_struct))
           /\ \A k \in FieldKeys(input) :
                 /\ HasKey(out.v.v, Atom(utf8_encode(k.v)))
                 /\ Get(out.v.v, Atom(utf8_encode(k.v))) = Encode(Get(input.v, k)).v
           /\ Keys(out.v.v) =
                 {Atom(utf8_encode(k.v)) : k \in FieldKeys(input)} \cup {Atom(T_struct)}

\* C5 (as claimed): a caller-supplied '__struct__' entry is kept, encoded; the
\* module Symbol derived from '__class__' is added only when it is absent
C5_StructOnlyIfAbsent ==
    (Encoded /\ SafeStructInput /\ out.ok /\ out.v.tag = "dict")
        => /\ HasKey(out.v.v, Atom(T_struct))
           /\ Get(out.v.v, Atom(T_struct)) =
                 IF HasKey(input.v, PyStr(T_struct))
                 THEN Encode(Get(input.v, PyStr(T_struct))).v
                 ELSE Atom(utf8_encode(module_name(Get(input.v, PyStr(T_class))).v))

\* C6 (as claimed): for every '__class__' string struct conversion succeeds in
\* both variants with '__struct__' -> 'Elixir.' + the capitalized segments
C6_ModuleName ==
    (Encoded /\ input = StructOfClass(cls))
        => /\ out.ok
           /\ out.v.tag = "dict"
           /\ HasKey(out.v.v, Atom(T_struct))
           /\ Get(out.v.v, Atom(T_struct)) =
                 Atom(utf8_encode(T_Elixir \o
                        join([i \in 1..Len(split(cls)) |-> capitalize(split(cls)[i])])))

(***************************************************************************)
(* The snippet engine: execute(code, variables).                           *)
(*                                                                         *)
(* A snippet is the sequence of its top-level statements as ast.parse      *)
(* splits it; a Malformed statement stands for text that does not parse.   *)
(* ast.unparse gives back source text of the same statements, so exec and  *)
(* eval of the unparsed text run the statements themselves.                *)
(***************************************************************************)
\* expressions: a literal, a name, id + 1, 1/0, id()
Constant(v) == [op |-> "Constant", arg |-> v]
Name(id) == [op |-> "Name", arg |-> PyStr(id)]
AddOne(id) == [op |-> "BinOp", arg |-> PyStr(id)]
DivZero == [op |-> "Div", arg |-> PyNone]
Call(id) == [op |-> "Call", arg |-> PyStr(id)]

\* statements: e;  id = e;  def id(): return e;  pass;
\* class id with a static method new(*a), which returns an instance that keeps
\* a, and a method handler(self, *b), which returns e;
\* __builtins__['id'] = e;  a return outside any function, which ast.parse
\* accepts and the compiler rejects
Expr(e) == [kind |-> "Expr", name |-> <<>>, value |-> e]
Assign(id, e) == [kind |-> "Assign", name |-> id, value |-> e]
FunctionDef(id, e) == [kind |-> "FunctionDef", name |-> id, value |-> e]
ClassDef(id, e) == [kind |-> "ClassDef", name |-> id, value |-> e]
Pass == [kind |-> "Pass", name |-> <<>>, value |-> Constant(PyNone)]
Malformed == [kind |-> "Malformed", name |-> <<>>, value |-> Constant(PyNone)]
SetBuiltin(id, e) == [kind |-> "SetBuiltin", name |-> id, value |-> e]
ReturnStmt == [kind |-> "Return", name |-> <<>>, value |-> Constant(PyNone)]

\* bodies of a class: handler returns [list(self.a), list(b)];
\* the class has __init__(self, *a) and handler, and no method new
Args == [op |-> "Args", arg |-> PyNone]
NoNew == [op |-> "NoNew", arg |-> PyNone]

PyFunction(e) == [tag |-> "function", v |-> e]
PyClass(stmt) == [tag |-> "class", v |-> stmt]
PyObject(class) == [tag |-> "object", v |-> class]

\* the builtins dict an environment refers to under '__builtins__'
builtins_of(env) == Get(env, PyStr(T_builtins)).v

\* a global name read by running code: the globals, then the builtins
lookup(env, id) ==
    IF HasKey(env, PyStr(id)) THEN Return(Get(env, PyStr(id)))
    ELSE IF HasKey(builtins_of(env), PyStr(id))
    THEN Return(Get(builtins_of(env), PyStr(id)))
    ELSE Raise(T_NameError, T_name_pre \o id \o T_name_post)

\* x + 1
add_one(x) ==
    CASE x.tag = "int" -> Return(PyInt(x.v + 1))
      [] x.tag = "bool" -> Return(PyInt(IF x.v THEN 2 ELSE 1))
      [] x.tag = "str" -> Raise(T_TypeError, T_concat_str)
      [] x.tag = "bytes" -> Raise(T_TypeError, T_concat_bytes)
      [] x.tag = "list" -> Raise(T_TypeError, T_concat_list)
      [] x.tag = "tuple" -> Raise(T_TypeError, T_concat_tuple)
      [] OTHER -> Raise(T_TypeError, T_operand_pre \o TypeName(x) \o T_operand_post)

\* eval(expression, globals_dict)
RECURSIVE py_eval(_, _)
py_eval(e, env) ==
    CASE e.op = "Constant" -> Return(e.arg)
      [] e.op = "Name" -> lookup(env, e.arg.v)
      [] e.op = "BinOp" ->
            LET x == lookup(env, e.arg.v) IN IF x.ok THEN add_one(x.v) ELSE x
      [] e.op = "Div" -> Raise(T_ZeroDivisionError, T_div_msg)
      [] OTHER ->
            LET g == lookup(env, e.arg.v)
            IN  IF ~g.ok THEN g
                ELSE IF g.v.tag = "function" THEN py_eval(g.v.v, env)
                ELSE IF g.v.tag = "class" THEN Return(PyObject(g.v))
                ELSE Raise(T_TypeError, T_quote \o TypeName(g.v) \o T_not_callable)

\* exec(statement, globals_dict): the environment after it, or what it raises
py_exec(s, env) ==
    CASE s.kind = "Expr" ->
            LET x == py_eval(s.value, env) IN IF x.ok THEN Return(env) ELSE x
      [] s.kind = "Assign" ->
            LET x == py_eval(s.value, env)
            IN  IF x.ok THEN Return(Put(env, PyStr(s.name), x.v)) ELSE x
      [] s.kind = "FunctionDef" -> Return(Put(env, PyStr(s.name), PyFunction(s.value)))
      [] s.kind = "ClassDef" -> Return(Put(env, PyStr(s.name), PyClass(s)))
      [] s.kind = "SetBuiltin" ->
            LET x == py_eval(s.value, env)
            IN  IF x.ok
                THEN Return(Put(env, PyStr(T_builtins),
                                PyDict(Put(builtins_of(env), PyStr(s.name), x.v))))
                ELSE x
      [] s.kind = "Return" -> Raise(T_SyntaxError, T_return_msg)
      [] OTHER -> Return(env)

\* compile of the source text exec is given: all of it, before any of it runs
\* (the location that follows the message is left out)
py_compile(stmts) ==
    IF \E i \in 1..Len(stmts) : stmts[i].kind = "Return"
    THEN Raise(T_SyntaxError, T_return_msg)
    ELSE Return(stmts)

\* ast.parse(code, mode='exec'): the body, or SyntaxError
ast_parse(text) ==
    IF \E i \in 1..Len(text) : text[i].kind = "Malformed"
    THEN Raise(T_SyntaxError, T_syntax_msg)
    ELSE Return(text)

\* lines 102-105: {(k.decode('utf-8') if isinstance(k, bytes) else str(k)):
\*                 decode_term(v) for k, v in variables.items()}
binding_name(k) ==
    IF k.tag = "bytes" THEN decode_text(k.v) ELSE Return(PyStr(py_str(k)))
RECURSIVE decode_bindings(_, _)
decode_bindings(kvs, acc) ==
    IF kvs = <<>> THEN Return(acc)
    ELSE LET k == binding_name(kvs[1][1])
         IN  IF ~k.ok THEN k
             ELSE LET x == Decode(kvs[1][2])
                  IN  IF ~x.ok THEN x
                      ELSE decode_bindings(Tail(kvs), Put(acc, k.v, x.v))

\* dict.update
RECURSIVE Update(_, _)
Update(env, kvs) ==
    IF kvs = <<>> THEN env ELSE Update(Put(env, kvs[1][1], kvs[1][2]), Tail(kvs))

\* if variables: (truth value of the argument)
Truthy(x) ==
    CASE x.tag = "none" -> FALSE
      [] x.tag = "bool" -> x.v
      [] x.tag = "int" -> x.v # 0
      [] x.tag \in {"str", "bytes", "list", "tuple", "dict"} -> x.v # <<>>
      [] OTHER -> TRUE

\* lines 98-105: {'__builtins__': __builtins__} updated with the decoded
\* bindings; __builtins__ is the builtins dict of the process, not a copy
globals_from(variables, shared) ==
    LET fresh == << <<PyStr(T_builtins), PyDict(shared)>> >>
    IN  IF ~Truthy(variables) THEN Return(fresh)
        ELSE IF variables.tag # "dict" THEN NoAttribute(variables, T_items)
        ELSE LET d == decode_bindings(variables.v, <<>>)
             IN  IF d.ok THEN Return(Update(fresh, d.v)) ELSE d

\* the environment an invocation starts from
initial_globals(variables) == globals_from(variables, builtins)

\* priv lines 131-134: return (Atom(b'error'), f"{error_type}: {error_msg}")
error_pair(e) ==
    Return(PyTuple(<<Atom(T_error), PyStr(e.type \o T_colon \o e.msg)>>))
\* lux lines 148-151: raise RuntimeError(f"{type(e).__name__}: {str(e)}")
reraise(e) == Raise(T_RuntimeError, e.type \o T_colon \o e.msg)
except_clause(e) == IF impl = "priv" THEN error_pair(e) ELSE reraise(e)

\* the invocation ends in the except clause
Fails(e) ==
    /\ caught' = <<e>>
    /\ result' = except_clause(e)
    /\ pc' = "done"

\* the prefix statements run bottom to top
next_stmt_reversed(body, done) == Len(body) - 1 - Len(done)

\* the index of the prefix statement exec runs next (body[:-1], top to bottom)
next_stmt(body, done) == Len(done) + 1

\* the environment the last statement runs in
last_env(env, variables) == env

\* d.get(key, default)
get_default(kvs, k, default) == IF HasKey(kvs, k) THEN Get(kvs, k) ELSE default

\* f(*x): the positional arguments an iterable unpacks to (a bytes value does
\* not get here: the bindings were decoded)
star(x, callee) ==
    CASE x.tag \in {"list", "tuple"} -> Return(x.v)
      [] x.tag = "str" -> Return([i \in 1..Len(x.v) |-> PyStr(<<x.v[i]>>)])
      [] x.tag = "dict" -> Return([i \in 1..Len(x.v) |-> x.v[i][1]])
      [] OTHER -> Raise(T_TypeError, callee \o T_star_arg \o TypeName(x))

\* lux line 140: cls.new(*constructor_args); the arguments the instance keeps
instantiate(class, constructor_args) ==
    IF class.v.value.op = "NoNew"
    THEN Raise(T_AttributeError,
               T_type_object \o class.v.name \o T_has_no_attr \o T_new \o T_quote)
    ELSE star(constructor_args, class.v.name \o T_dot \o T_new)

\* lux line 141: getattr(cls_instance, func)(*args) if func else None
invoke(class, kept, func, args, env) ==
    IF ~Truthy(func) THEN Return(PyNone)
    ELSE IF func.tag # "str"
    THEN Raise(T_TypeError, T_attr_name \o TypeName(func) \o T_quote)
    ELSE IF func.v \notin {T_handler, T_new} THEN NoAttribute(PyObject(class), func.v)
    ELSE IF ~star(args, class.v.name \o T_dot \o func.v).ok
    THEN star(args, class.v.name \o T_dot \o func.v)
    ELSE IF func.v = T_new THEN Return(PyObject(class))
    ELSE IF class.v.value.op = "Args"
    THEN Return(PyList(<<PyList(kept),
                             PyList(star(args, class.v.name \o T_dot \o func.v).v)>>))
    ELSE py_eval(class.v.value, env)

\* lux lines 140-141
construct_and_invoke(class, func, args, constructor_args, env) ==
    IF instantiate(class, constructor_args).ok
    THEN invoke(class, instantiate(class, constructor_args).v, func, args, env)
    ELSE instantiate(class, constructor_args)

\* the function arguments passed to new, the constructor arguments to the method
entry_call_swapped(defined, name) ==
    construct_and_invoke(Get(defined, PyStr(name)),
                         Get(defined, PyStr(T_lux_function)),
                         get_default(defined, PyStr(T_lux_constructor_args), PyList(<<>>)),
                         get_default(defined, PyStr(T_lux_function_args), PyList(<<>>)),
                         defined)

\* lux lines 135-141, in the environment the class definition left
entry_call(defined, name) ==
    construct_and_invoke(Get(defined, PyStr(name)),
                         Get(defined, PyStr(T_lux_function)),
                         get_default(defined, PyStr(T_lux_function_args), PyList(<<>>)),
                         get_default(defined, PyStr(T_lux_constructor_args), PyList(<<>>)),
                         defined)

\* lux lines 134-141: the entry-point call on the class just defined
entry_point(last, env) == entry_call(py_exec(last, env).v, last.name)

\* return encode_term(result), or the exception on its way to the except clause
encoded(x, env) == <<IF x.ok THEN Encode(x.v) ELSE x, env>>
\* return None after exec
executed(r, env) == <<IF r.ok THEN Return(PyNone) ELSE r, IF r.ok THEN r.v ELSE env>>

\* the last statement always executed as a statement, never evaluated
run_last_exec_only(last, env) == executed(py_exec(last, env), env)

\* priv lines 123-129, lux lines 130-146: what the last statement yields:
\* the outcome and the environment after it
run_last(last, env) ==
    IF last.kind = "Expr"
    THEN encoded(py_eval(last.value, env), env)
    ELSE IF impl = "lux" /\ last.kind = "ClassDef" /\ HasKey(env, PyStr(T_lux_function))
    THEN encoded(entry_point(last, env), py_exec(last, env).v)
    ELSE executed(py_exec(last, env), env)

(***************************************************************************)
(* One invocation of execute, step by step.                                *)
(***************************************************************************)
\* lines 94-105
DecodeInputs ==
    /\ pc = "start"
    /\ LET g == initial_globals(bindings)
       IN  IF g.ok
           THEN /\ globals_dict' = g.v
                /\ pc' = "parse"
                /\ UNCHANGED <<caught, result>>
           ELSE /\ Fails(g.v)
                /\ UNCHANGED globals_dict
    /\ UNCHANGED <<impl, allowlist, codecVars, code, bindings, trace, builtins, parked>>

\* lines 108-115
Parse ==
    /\ pc = "parse"
    /\ LET tree == ast_parse(code)
       IN  IF ~tree.ok THEN Fails(tree.v)
           ELSE IF tree.v = <<>>
           THEN /\ result' = Return(PyNone)
                /\ pc' = "done"
                /\ UNCHANGED caught
           ELSE /\ pc' = IF Len(tree.v) > 1 THEN "prefix" ELSE "last"
                /\ UNCHANGED <<caught, result>>
    /\ UNCHANGED <<impl, allowlist, codecVars, code, bindings, globals_dict, trace, builtins, parked>>

\* a failing prefix statement is skipped and the next one is run
ExecPrefix_keep_going ==
    /\ pc = "prefix"
    /\ LET i == next_stmt(code, trace)
           r == py_exec(code[i], globals_dict)
       IN  /\ trace' = Append(trace, i)
           /\ globals_dict' = IF r.ok THEN r.v ELSE globals_dict
           /\ builtins' = builtins_of(globals_dict')
           /\ pc' = IF Len(trace') = Len(code) - 1 THEN "last" ELSE "prefix"
           /\ UNCHANGED <<caught, result>>
    /\ UNCHANGED <<impl, allowlist, codecVars, code, bindings, parked>>

\* line 117: exec of the statements before the last: the text is compiled,
\* then run one statement per step
ExecPrefix ==
    /\ pc = "prefix"
    /\ LET i == next_stmt(code, trace)
           c == py_compile(SubSeq(code, 1, Len(code) - 1))
           r == py_exec(code[i], globals_dict)
       IN  IF ~c.ok
           THEN /\ Fails(c.v)
                /\ UNCHANGED <<trace, globals_dict, builtins>>
           ELSE /\ trace' = Append(trace, i)
                /\ IF r.ok
                   THEN /\ globals_dict' = r.v
                        /\ builtins' = builtins_of(r.v)
                        /\ pc' = IF Len(trace') = Len(code) - 1 THEN "last" ELSE "prefix"
                        /\ UNCHANGED <<caught, result>>
                   ELSE /\ Fails(r.v)
                        /\ UNCHANGED <<globals_dict, builtins>>
    /\ UNCHANGED <<impl, allowlist, codecVars, code, bindings, parked>>

\* priv lines 120-129, lux lines 127-146: the text of the last statement is
\* compiled, then run
RunLast ==
    /\ pc = "last"
    /\ LET c == py_compile(<<code[Len(code)]>>)
           r == run_last(code[Len(code)], last_env(globals_dict, bindings))
       IN  IF ~c.ok
           THEN /\ Fails(c.v)
                /\ UNCHANGED <<trace, globals_dict, builtins>>
           ELSE /\ trace' = Append(trace, Len(code))
                /\ globals_dict' = r[2]
                /\ builtins' = builtins_of(r[2])
                /\ IF r[1].ok
                   THEN /\ result' = r[1]
                        /\ pc' = "done"
                        /\ UNCHANGED caught
                   ELSE Fails(r[1].v)
    /\ UNCHANGED <<impl, allowlist, codecVars, code, bindings, parked>>

\* the snippets and bindings the caller submits
Statements ==
    { Assign(T_x, Constant(PyInt(1))),
      Assign(T_x, AddOne(T_x)),
      Expr(Name(T_x)),
      Expr(DivZero),
      FunctionDef(T_f, Name(T_x)),
      Expr(Call(T_f)),
      ClassDef(T_K, Name(T_x)),
      Pass,
      ReturnStmt,
      Malformed }

RECURSIVE Snippets(_)
Snippets(n) ==
    IF n = 0 THEN {<<>>}
    ELSE Snippets(n - 1) \cup
         {Append(p, s) : p \in {q \in Snippets(n - 1) : Len(q) = n - 1}, s \in Statements}

Variables ==
    { PyNone,
      PyDict(<< <<PyBytes(T_x), PyInt(5)>> >>),
      PyDict(<< <<PyBytes(T_x), PyBytes(<<"xA9">>)>> >>),
      PyDict(<< <<Atom(T_x), PyDict(<< <<PyBytes(T_class), PyBytes(T_user)>>,
                                       <<PyBytes(T_last_login), PyInt(1)>> >>)>> >>),
      PyDict(<< <<PyBytes(T_x), PyDict(<< <<PyBytes(T_class), PyInt(1)>> >>)>> >>),
      PyDict(<< <<PyBytes(T_lux_function), PyBytes(T_handler)>>,
                <<PyBytes(T_x), PyNone>> >>) }

AllSnippets == Snippets(MaxStmts)

InitExec ==
    /\ impl \in Impls
    /\ allowlist = AsImported
    /\ code \in AllSnippets
    /\ bindings \in Variables
    /\ pc = "start"
    /\ globals_dict = <<>>
    /\ trace = <<>>
    /\ caught = <<>>
    /\ result = Return(PyNone)
    /\ builtins = <<>>
    /\ parked = NoCall
    /\ input = PyNone /\ depth = 0 /\ ops = <<>> /\ out = Return(PyNone) /\ cls = <<>>

NextExec == DecodeInputs \/ Parse \/ ExecPrefix \/ RunLast

SpecExec == InitExec /\ [][NextExec]_vars

(***************************************************************************)
(* Properties of the snippet engine.                                       *)
(***************************************************************************)
Done == pc = "done"
Succeeded == pc = "done" /\ caught = <<>>
Failed == pc = "done" /\ caught # <<>>
Last == code[Len(code)]

\* the statements run one after the other from an environment
RECURSIVE ExecAll(_, _)
ExecAll(stmts, env) ==
    IF stmts = <<>> THEN Return(env)
    ELSE LET r == py_exec(Head(stmts), env)
         IN  IF r.ok THEN ExecAll(Tail(stmts), r.v) ELSE r

\* C7: for a snippet that parses and runs without failure, the result is Nil
\* (the bare None, not encode_term(None)) for an empty snippet, and then nothing
\* was run; Nil when the last statement is no bare expression; and
\* encode_term(value of the last statement) when it is one
C7_ResultClassification ==
    (impl = "priv" /\ Succeeded)
        => IF code = <<>> THEN result = Return(PyNone) /\ trace = <<>>
           ELSE IF Last.kind # "Expr" THEN result = Return(PyNone)
           ELSE result = encode_term(py_eval(Last.value, globals_dict).v)

C7_Witness ==
    /\ impl = "priv" /\ Succeeded
    /\ Len(code) = 3
    /\ code[1].kind = "Assign" /\ code[2].kind = "FunctionDef" /\ Last.kind = "Expr"
    /\ bindings = PyNone
    /\ result = Return(PyInt(1))

\* C8 (as claimed): every failure of an invocation is raised as one RuntimeError
\* with the message '<FailureKind>: <detail>'
C8_FailureReRaised ==
    (Failed /\ initial_globals(bindings).ok)
        => /\ ~result.ok
           /\ result.v.type = T_RuntimeError
           /\ result.v.msg = caught[1].type \o T_colon \o caught[1].msg

\* C9 (as claimed): in src/priv/python/lux/eval.py every failure of an invocation
\* is returned as ErrorPair(Symbol 'error', Bytes detail)
C9_InBandErrorPair ==
    (impl = "priv" /\ Failed)
        => /\ result.ok
           /\ IsErrorPair(result.v)
           /\ result.v.v[2].tag = "bytes"

\* C10: the statements run in textual order, each once, in one environment
\* that starts as the decoded bindings; the last statement runs after all the
\* others, in the environment they left
C10_PrefixOrder ==
    /\ \A k \in 1..Len(trace) : trace[k] = k
    /\ pc = "last" => Len(trace) = Len(code) - 1
    /\ (pc \in {"prefix", "last"} \/ (Succeeded /\ code # <<>>))
          => Return(globals_dict) =
                ExecAll(SubSeq(code, 1, Len(trace)), initial_globals(bindings).v)
    /\ (Succeeded /\ code # <<>> /\ Last.kind = "Expr")
          => LET before == ExecAll(SubSeq(code, 1, Len(code) - 1),
                                   initial_globals(bindings).v)
             IN  before.ok /\ result = Encode(py_eval(Last.value, before.v).v)

C10_Witness ==
    /\ Succeeded
    /\ code = <<Assign(T_x, AddOne(T_x)), FunctionDef(T_f, Name(T_x)), Expr(Call(T_f))>>
    /\ HasKey(bindings.v, PyBytes(T_x))
    /\ trace = <<1, 2, 3>>
    /\ result = Return(PyInt(6))

(***************************************************************************)
(* Two execute calls in one Python process. One call runs at a time;       *)
(* Switch hands the interpreter to the other one between two steps: a      *)
(* thread switch, or the next call once the first has returned.            *)
(***************************************************************************)
TheCall ==
    [code |-> code, bindings |-> bindings, pc |-> pc, globals_dict |-> globals_dict,
     trace |-> trace, caught |-> caught, result |-> result]

\* an environment refers to the builtins dict of the process, so it sees the
\* dict as it is now
rebind(env, shared) ==
    IF HasKey(env, PyStr(T_builtins)) THEN Put(env, PyStr(T_builtins), PyDict(shared))
    ELSE env

Switch ==
    /\ parked.pc \notin {"idle", "done"}
    /\ parked' = TheCall
    /\ code' = parked.code
    /\ bindings' = parked.bindings
    /\ pc' = parked.pc
    /\ globals_dict' = rebind(parked.globals_dict, builtins)
    /\ trace' = parked.trace
    /\ caught' = parked.caught
    /\ result' = parked.result
    /\ UNCHANGED <<impl, allowlist, codecVars, builtins>>

IsoStatements ==
    { SetBuiltin(T_x, Constant(PyInt(1))),
      Assign(T_x, AddOne(T_x)),
      Expr(Name(T_x)) }

RECURSIVE IsoSnippets(_)
IsoSnippets(n) ==
    IF n = 0 THEN {<<>>}
    ELSE IsoSnippets(n - 1) \cup
         {Append(p, s) : p \in {q \in IsoSnippets(n - 1) : Len(q) = n - 1},
                         s \in IsoStatements}

AllIsoSnippets == IsoSnippets(MaxIsoStmts)

IsoVariables == {PyNone, PyDict(<< <<PyBytes(T_x), PyInt(5)>> >>)}

InitIso ==
    /\ impl \in Impls
    /\ allowlist = AsImported
    /\ code \in AllIsoSnippets
    /\ bindings \in IsoVariables
    /\ pc = "start"
    /\ globals_dict = <<>>
    /\ trace = <<>>
    /\ caught = <<>>
    /\ result = Return(PyNone)
    /\ builtins = <<>>
    /\ \E c \in AllIsoSnippets, b \in IsoVariables :
          parked = [NoCall EXCEPT !.code = c, !.bindings = b, !.pc = "start"]
    /\ input = PyNone /\ depth = 0 /\ ops = <<>> /\ out = Return(PyNone) /\ cls = <<>>

NextIso == DecodeInputs \/ Parse \/ ExecPrefix \/ RunLast \/ Switch

SpecIso == InitIso /\ [][NextIso]_vars

\* the outcome of execute(c, v) as the only call of a process
run_alone(c, v) ==
    LET g == globals_from(v, <<>>)
        tree == ast_parse(c)
        prefix == SubSeq(c, 1, Len(c) - 1)
    IN  IF ~g.ok THEN except_clause(g.v)
        ELSE IF ~tree.ok THEN except_clause(tree.v)
        ELSE IF c = <<>> THEN Return(PyNone)
        ELSE IF ~py_compile(prefix).ok THEN except_clause(py_compile(prefix).v)
        ELSE LET before == ExecAll(prefix, g.v)
             IN  IF ~before.ok THEN except_clause(before.v)
                 ELSE LET r == run_last(c[Len(c)], before.v)[1]
                      IN  IF r.ok THEN r ELSE except_clause(r.v)

\* C11 (as claimed): a call starts from an environment whose names are
\* '__builtins__' and its own decoded bindings, and the result of every call,
\* run after or interleaved with another, is the result it produces when run
\* alone (no name bound by one call can be read by the other)
C11_InvocationIsolation ==
    /\ pc = "parse" => Keys(globals_dict) = Keys(globals_from(bindings, <<>>).v)
    /\ Done => result = run_alone(code, bindings)
    /\ parked.pc = "done" => parked.result = run_alone(parked.code, parked.bindings)

(***************************************************************************)
(* More properties of the codec.                                           *)
(***************************************************************************)
\* a guest value: None, a boolean, an integer, text, a list of guest values,
\* or a dict without '__class__' with text or scalar keys and guest values
GuestKey(k) == k.tag \in {"none", "bool", "int", "str"}
RECURSIVE GuestValue(_)
GuestValue(x) ==
    CASE x.tag \in {"none", "bool", "int", "str"} -> TRUE
      [] x.tag = "list" -> \A i \in 1..Len(x.v) : GuestValue(x.v[i])
      [] x.tag = "dict" ->
            /\ ~HasKey(x.v, PyStr(T_class))
            /\ \A i \in 1..Len(x.v) : GuestKey(x.v[i][1]) /\ GuestValue(x.v[i][2])
      [] OTHER -> FALSE
GuestDict(x) == x.tag = "dict" /\ GuestValue(x)
NoNone(x) == PyNone \notin Parts(x)

\* text and the byte sequence of the same UTF-8 content identified: a byte
\* sequence that is valid UTF-8 is read as its text
RECURSIVE AsText(_)
AsText(x) ==
    CASE x.tag = "bytes" -> IF utf8_decode(x.v).ok THEN PyStr(utf8_decode(x.v).v) ELSE x
      [] x.tag \in {"list", "tuple"} ->
            [tag |-> x.tag, v |-> [i \in 1..Len(x.v) |-> AsText(x.v[i])]]
      [] x.tag = "dict" ->
            PyDict([i \in 1..Len(x.v) |-> <<AsText(x.v[i][1]), AsText(x.v[i][2])>>])
      [] OTHER -> x

\* C12 (as claimed): for a guest dict without '__class__', encode_term succeeds
\* and decode_term of the result has the keys of the dict, each with the value
\* it had, text and bytes of the same UTF-8 content identified
C12_GuestRoundTrip ==
    GuestDict(input)
        => /\ ops = <<"encode">> => out.ok
           /\ ops = <<"encode", "decode">>
                 => (out.ok /\ Canon(AsText(out.v)) = Canon(AsText(input)))

\* C12 (amended): the same, for guest dicts that hold no None, as key or value,
\* at any depth
C12_GuestRoundTripNoNone ==
    (GuestDict(input) /\ NoNone(input))
        => /\ ops = <<"encode">> => out.ok
           /\ ops = <<"encode", "decode">>
                 => (out.ok /\ Canon(AsText(out.v)) = Canon(AsText(input)))

C12_Witness ==
    /\ GuestDict(input) /\ NoNone(input)
    /\ ops = <<"encode", "decode">>
    /\ depth = 2
    /\ PyStr(<<"a", "U+E9">>) \in Parts(input)
    /\ \E d \in Parts(input) \ {input} : d.tag = "dict" /\ HasKey(d.v, PyInt(1))
    /\ out.ok /\ out.v = input

\* a struct-shaped dict with a text class, text field names and field values
\* that encode_term accepts
TextStructInput ==
    /\ IsStruct(input)
    /\ ClassIsText(input)
    /\ \A k \in FieldKeys(input) : k.tag = "str" /\ Encode(Get(input.v, k)).ok

\* C13 (as claimed): in the variant that does not reject a field name outside
\* SAFE_ATOMS, struct conversion succeeds with a Bytes key for such a field and
\* an Atom key for every field name of SAFE_ATOMS
C13_PermissiveBytesKey ==
    (impl = "lux" /\ Encoded /\ TextStructInput)
        => /\ out.ok
           /\ out.v.tag = "dict"
           /\ \A k \in FieldKeys(input) :
                 IF IsSafeName(k)
                 THEN HasKey(out.v.v, Atom(utf8_encode(k.v)))
                 ELSE /\ HasKey(out.v.v, PyBytes(utf8_encode(k.v)))
                      /\ ~HasKey(out.v.v, Atom(utf8_encode(k.v)))

\* a guest value: no Atom and no bytes in it
IsGuest(x) == \A p \in Parts(x) : p.tag \notin {"atom", "bytes"}

\* C14 (as claimed): encode_term raises nothing, whatever the guest value; a
\* field name outside SAFE_ATOMS is reported by returning the ErrorPair
C14_EncodeTotal ==
    (Encoded /\ IsGuest(input))
        => /\ out.ok
           /\ (impl = "priv" /\ IsStruct(input) /\ ClassIsText(input)
                 /\ \E k \in FieldKeys(input) : ~IsSafeName(k))
                 => IsErrorPair(out.v)

\* C15 (as claimed): encode_term of a list and of a tuple is the list of the
\* encoded elements, in order; a tuple is never returned as a tuple
C15_SequencesCollapse ==
    (Encoded /\ input.tag \in {"list", "tuple"}
       /\ \A i \in 1..Len(input.v) : Encode(input.v[i]).ok)
        => /\ out.ok
           /\ out.v.tag = "list"
           /\ Len(out.v.v) = Len(input.v)
           /\ \A i \in 1..Len(input.v) : out.v.v[i] = Encode(input.v[i]).v
           /\ out = Encode(PyList(input.v))

(***************************************************************************)
(* The entry-point branch of execute: the last statement defines a class   *)
(* and the bindings name a method to call on it.                           *)
(***************************************************************************)
ArgValues == {PyInt(1), PyBytes(T_x)}

RECURSIVE ArgSeqs(_)
ArgSeqs(n) ==
    IF n = 0 THEN {<<>>}
    ELSE ArgSeqs(n - 1) \cup
         {Append(p, a) : p \in {q \in ArgSeqs(n - 1) : Len(q) = n - 1}, a \in ArgValues}

\* an argument list of the bindings, or a value that is no list
ArgLists == {PyList(s) : s \in ArgSeqs(MaxArgs)} \cup {PyInt(5)}
FunctionNames == {PyBytes(T_handler), PyBytes(<<>>), PyBytes(T_new), PyBytes(T_x)}

\* a binding under key k with one of the values, or no such binding
Entry(k, values) == {<<>>} \cup {<< <<PyBytes(k), v>> >> : v \in values}

EntryVariables ==
    {PyDict(f \o a \o c) : f \in Entry(T_lux_function, FunctionNames),
                           a \in Entry(T_lux_function_args, ArgLists),
                           c \in Entry(T_lux_constructor_args, ArgLists)}

EntrySnippets ==
    {p \o <<ClassDef(T_K, body)>> :
        p \in {<<>>, <<Pass>>, <<Expr(DivZero)>>,
               <<Assign(T_lux_function, Constant(PyStr(T_handler)))>>},
        body \in {Args, NoNew}}

InitEntry ==
    /\ impl \in Impls
    /\ allowlist = AsImported
    /\ code \in EntrySnippets
    /\ bindings \in EntryVariables
    /\ pc = "start"
    /\ globals_dict = <<>>
    /\ trace = <<>>
    /\ caught = <<>>
    /\ result = Return(PyNone)
    /\ builtins = <<>>
    /\ parked = NoCall
    /\ input = PyNone /\ depth = 0 /\ ops = <<>> /\ out = Return(PyNone) /\ cls = <<>>

SpecEntry == InitEntry /\ [][NextExec]_vars

\* the last statement was run and it is a class definition
ClassDefRan == Done /\ Len(trace) = Len(code) /\ Last.kind = "ClassDef"
\* the environment holds the entry-point binding
EntryBound == HasKey(globals_dict, PyStr(T_lux_function))
\* the elements of the list bound to k in the environment, none if k is unbound
Given(k) == IF HasKey(globals_dict, PyStr(k)) THEN Get(globals_dict, PyStr(k)) ELSE PyList(<<>>)
EntryFunction == Get(globals_dict, PyStr(T_lux_function))
FailedWith(type) == Failed /\ caught[1].type = type
\* what the handler of the class body Args returns for the given lists, encoded
HandlerResult ==
    Encode(PyList(<<PyList(Given(T_lux_constructor_args).v),
                    PyList(Given(T_lux_function_args).v)>>))

\* C16 (as claimed): with a class definition last and '__lux_function__' in the
\* environment, the definition is executed once, the class is instantiated
\* with the constructor arguments, the named method is called with the
\* function arguments and its encoded result is returned; without the binding
\* the result is None
C16_EntryPoint ==
    ClassDefRan
        => /\ Cardinality({k \in 1..Len(trace) : trace[k] = Len(code)}) = 1
           /\ HasKey(globals_dict, PyStr(T_K))
           /\ ~EntryBound => result = Return(PyNone)
           /\ (/\ EntryBound
               /\ EntryFunction = PyStr(T_handler)
               /\ Given(T_lux_function_args).tag = "list"
               /\ Given(T_lux_constructor_args).tag = "list")
                 => result = HandlerResult

\* C16 (amended): the branch exists in the variant without allowlist only; the
\* instance is what the class's method new returns for the constructor
\* arguments, a class without new fails with AttributeError, an empty function
\* name calls nothing and yields encode_term(None), and arguments that are no
\* iterable fail with TypeError; the other variant only executes the definition
C16_EntryPointViaNew ==
    ClassDefRan
        => /\ Cardinality({k \in 1..Len(trace) : trace[k] = Len(code)}) = 1
           /\ HasKey(globals_dict, PyStr(T_K))
           /\ (impl = "priv" \/ ~EntryBound) => result = Return(PyNone)
           /\ (impl = "lux" /\ EntryBound)
                 => IF Last.value = NoNew THEN FailedWith(T_AttributeError)
                    ELSE IF Given(T_lux_constructor_args).tag # "list"
                    THEN FailedWith(T_TypeError)
                    ELSE IF EntryFunction = PyStr(<<>>) THEN result = Return(Atom(T_nil))
                    ELSE IF EntryFunction = PyStr(T_x) THEN FailedWith(T_AttributeError)
                    ELSE IF Given(T_lux_function_args).tag # "list"
                    THEN FailedWith(T_TypeError)
                    ELSE IF EntryFunction = PyStr(T_handler) THEN result = HandlerResult
                    ELSE Succeeded /\ result.v.tag = "object"

C16_Witness ==
    /\ impl = "lux" /\ Succeeded
    /\ code = <<Pass, ClassDef(T_K, Args)>>
    /\ trace = <<1, 2>>
    /\ bindings = PyDict(<< <<PyBytes(T_lux_function), PyBytes(T_handler)>>,
                            <<PyBytes(T_lux_function_args), PyList(<<PyInt(1), PyBytes(T_x)>>)>>,
                            <<PyBytes(T_lux_constructor_args), PyList(<<PyBytes(T_x)>>)>> >>)
    /\ result = Return(PyList(<<PyList(<<PyBytes(T_x)>>),
                                PyList(<<PyInt(1), PyBytes(T_x)>>)>>))

(***************************************************************************)
(* The allowlist, driven by a caller that types a name and then calls      *)
(* safe_atom, safe_struct_keys, encode_term and decode_term with it, in    *)
(* any order (src/priv/python/lux only: the other variant has no           *)
(* safe_atoms.py).                                                         *)
(***************************************************************************)
NameAlphabet == {"i", "d", "I", "_"}

StructOfField(name) ==
    PyDict(<< <<PyStr(T_class), PyStr(T_user)>>, <<PyStr(name), PyInt(1)>> >>)
DictOfField(name) ==
    PyDict(<< <<PyStr(T_name), PyInt(1)>>, <<PyStr(name), PyInt(2)>> >>)

InitGuard ==
    /\ impl = "priv"
    /\ allowlist = AsImported
    /\ cls = <<>>
    /\ input = PyStr(cls)
    /\ depth = 0
    /\ ops = <<>>
    /\ out = Return(input)
    /\ ExecIdle

TypeNameChar ==
    /\ ops = <<>>
    /\ Len(cls) < MaxNameLen
    /\ \E c \in NameAlphabet : cls' = Append(cls, c)
    /\ input' = PyStr(cls')
    /\ out' = Return(input')
    /\ UNCHANGED <<impl, allowlist, depth, ops, execVars>>

\* a call of one of the four functions: none of them assigns to SAFE_ATOMS
Called(name, argument, outcome) ==
    /\ Len(ops) < MaxCalls
    /\ ops' = Append(ops, name)
    /\ input' = argument
    /\ out' = outcome
    /\ UNCHANGED <<impl, allowlist, depth, cls, execVars>>

CallSafeAtom == Called("safe_atom", PyStr(cls), safe_atom(PyStr(cls)))
CallSafeStructKeys ==
    Called("safe_struct_keys", DictOfField(cls), safe_struct_keys(DictOfField(cls)))
CallEncodeStruct ==
    Called("encode_term", StructOfField(cls), Encode(StructOfField(cls)))
CallDecodeResult ==
    /\ out.ok
    /\ Called("decode_term", out.v, Decode(out.v))

NextGuard ==
    TypeNameChar \/ CallSafeAtom \/ CallSafeStructKeys \/ CallEncodeStruct
        \/ CallDecodeResult

SpecGuard == InitGuard /\ [][NextGuard]_vars

LastCall == ops[Len(ops)]

EnvBefore(k) == ExecAll(SubSeq(code, 1, k - 1), initial_globals(bindings).v)

\* C18: no statement runs twice, a statement starts only after all earlier
\* ones completed without failure, nothing runs after the first failing
\* statement, what the earlier statements did to the environment stays, and
\* the invocation ends with the translation of that failure
C18_StopAtFirstFailure ==
    /\ \A j, k \in 1..Len(trace) : trace[j] = trace[k] => j = k
    /\ \A k \in 1..Len(trace) : trace[k] = k /\ EnvBefore(k).ok
    /\ (Failed /\ trace # <<>>)
          => LET m == Len(trace)
                 run == IF m < Len(code)
                        THEN <<py_exec(code[m], EnvBefore(m).v), EnvBefore(m).v>>
                        ELSE run_last(code[m], EnvBefore(m).v)
             IN  IF run[1].ok
                 THEN \* the text of the last statement did not compile
                      /\ m = Len(code) - 1
                      /\ caught = <<py_compile(<<Last>>).v>>
                      /\ Return(globals_dict) = EnvBefore(m + 1)
                      /\ result = except_clause(caught[1])
                 ELSE /\ caught = <<run[1].v>>
                      /\ globals_dict = run[2]
                      /\ result = except_clause(run[1].v)
    /\ (Done /\ trace # <<>> /\ Len(trace) < Len(code)) => Failed

C18_Witness ==
    /\ Failed
    /\ code = <<Assign(T_x, Constant(PyInt(1))), Expr(DivZero), Expr(Name(T_x))>>
    /\ bindings = PyNone
    /\ trace = <<1, 2>>
    /\ Get(globals_dict, PyStr(T_x)) = PyInt(1)
    /\ caught[1].type = T_ZeroDivisionError
    /\ result = except_clause(caught[1])

\* text Python rejects with SyntaxError
Invalid(stmts) == \E i \in 1..Len(stmts) : stmts[i].kind \in {"Malformed", "Return"}

\* C19 (as claimed): a snippet that is syntactically invalid anywhere fails
\* with the SyntaxError before any of its statements has run, with the
\* bindings decoded and the environment otherwise untouched
C19_ParseFailureRunsNothing ==
    (Done /\ initial_globals(bindings).ok /\ Invalid(code))
        => /\ trace = <<>>
           /\ Failed
           /\ caught[1].type = T_SyntaxError
           /\ globals_dict = initial_globals(bindings).v
           /\ result = except_clause(caught[1])

\* C20: a call of encode_term or decode_term leaves its argument as it was (a
\* struct-shaped dict keeps '__class__' and gains no '__struct__'), and
\* encode_term of the same value a second time returns what the first call
\* returned
C20_ArgumentUnchanged ==
    [][ /\ ops' # ops => input' = input
        /\ (ops = <<"encode">> /\ ops' = <<"encode", "encode">>) => out' = out
      ]_vars

C20_Witness ==
    /\ ops = <<"encode", "encode">>
    /\ depth = 2
    /\ IsStruct(input)
    /\ ~HasKey(input.v, PyStr(T_struct))
    /\ \E d \in Parts(input) \ {input} : IsStruct(d)
    /\ out.ok
    /\ out.v.tag = "dict"
    /\ HasKey(out.v.v, Atom(T_struct))
    /\ ~HasKey(out.v.v, Atom(T_class))
====
